---- MODULE Spec2Model ----
(***************************************************************************)
(* A model of the staged text pipeline: the Pipeline orchestrator          *)
(* (pipeline.py), the reference composition SomePipeline (sample.py) and   *)
(* the stages of pipeline_stages.py that carry state or decide something:  *)
(* OmittedPrepositions (fit / save / load / transform) and SkipPastTenses  *)
(* (detect_past_tense).                                                    *)
(*                                                                         *)
(* Strings.  A Python str is modelled as the sequence of its whitespace-   *)
(* delimited words, each with the single whitespace character that stands  *)
(* before it ("" for the first word): "go on" is                           *)
(*   << [sep |-> "", word |-> "go"], [sep |-> " ", word |-> "on"] >>.      *)
(* The whitespace alphabet is {space, tab}; separators are one character   *)
(* long and strings carry no leading or trailing whitespace.               *)
(***************************************************************************)
EXTENDS Integers, Sequences, FiniteSets, TLC

\* ------------------------------------------------------------------ bounds

\* The training data of a run holds at most MaxTokens units, a word counting
\* one unit and an empty string one unit.
MaxTokens == 3

\* The counters of a stored stat record run over 0..MaxCount.
MaxCount == 2

\* The thresholds an instance is tuned to: 0..MaxThreshold and the default.
MaxThreshold == 1

\* A pipe holds at most MaxPipe stages.
MaxPipe == 3

\* A root has at most MaxChildren children.
MaxChildren == 2

\* ---------------------------------------------------------------- strings

SP == " "

TAB == "\t"

Whitespace == {SP, TAB}

\* The words of the training strings: the three candidate prepositions and
\* one other word.
FitWords == {"go", "on", "at", "in"}

FirstElems == [sep : {""}, word : FitWords]

NextElems == [sep : Whitespace, word : FitWords]

\* The strings of exactly n words.
StrsOfLen(n) ==
  IF n = 0 THEN {<< >>}
  ELSE {<<f>> \o r : f \in FirstElems, r \in [1..(n - 1) -> NextElems]}

\* The strings that weigh k units.
StrsOfWeight(k) == IF k = 1 THEN StrsOfLen(0) \cup StrsOfLen(1) ELSE StrsOfLen(k)

RECURSIVE Corpora(_)
\* The sequences of strings that weigh at most m units together.
Corpora(m) ==
  {<< >>} \cup
  UNION {{<<s>> \o c : s \in StrsOfWeight(k), c \in Corpora(m - k)} : k \in 1..m}

\* str.split(): the words of the string, in order.
Split(s) == [i \in 1..Len(s) |-> s[i].word]

\* ------------------------------------------------- OmittedPrepositions

None == "None"

DefaultThreshold == 27

\* self.prepositions
prepositions == <<"on", "at", "in">>

\* x in tuple
InTuple(x, tup) == \E i \in 1..Len(tup) : tup[i] = x

\* tuple.index(x), counted from 1: the first position holding x.
TupleIndex(tup, x) ==
  CHOOSE i \in 1..Len(tup) : tup[i] = x /\ \A j \in 1..(i - 1) : tup[j] # x

\* One alternative '(.* +p(( +)|$).*)' of preposition_regex against the whole
\* string: p stands as a word with a space right before it, and a space or
\* the end of the string right after it.
AltFullmatch(s, p) ==
  \E i \in 2..Len(s) :
    /\ s[i].word = p
    /\ s[i].sep = SP
    /\ (i = Len(s) \/ s[i + 1].sep = SP)

\* re.fullmatch(self.preposition_regex, txt)
preposition_regex_fullmatch(s) ==
  \E k \in 1..Len(prepositions) : AltFullmatch(s, prepositions[k])

\* The stat dictionary: token -> <<total, with_on, with_at, with_in>>.
EmptyStat == [k \in {} |-> <<0, 0, 0, 0>>]

\* dict[key] = val
DictSet(d, key, val) ==
  [k \in (DOMAIN d) \cup {key} |-> IF k = key THEN val ELSE d[k]]

\* val[pos] += 1 on a copy of the tuple (pos counted from 1).
TupleIncr(val, pos) == [val EXCEPT ![pos] = @ + 1]

\* The body of the loop over enumerate(tokens[1:]) for the token at
\* position j: count it for the token before it when it is a preposition.
CountPair(stat, tokens, j) ==
  LET t == tokens[j] IN
  IF ~InTuple(t, prepositions) THEN stat
  ELSE LET prev_token == tokens[j - 1]
           prep_indx == TupleIndex(prepositions, t) + 1
       IN IF prev_token \in DOMAIN stat
          THEN DictSet(stat, prev_token, TupleIncr(stat[prev_token], prep_indx))
          ELSE DictSet(stat, prev_token, TupleIncr(<<0, 0, 0, 0>>, prep_indx))

RECURSIVE CountPairs(_, _, _)
\* for i, t in enumerate(tokens[1:]), from position j on.
CountPairs(stat, tokens, j) ==
  IF j > Len(tokens) THEN stat
  ELSE CountPairs(CountPair(stat, tokens, j), tokens, j + 1)

RECURSIVE FirstPass(_, _, _)
\* The first loop of fit over X, from string n on: strings the pattern does
\* not match are skipped.
FirstPass(stat, X, n) ==
  IF n > Len(X) THEN stat
  ELSE IF ~preposition_regex_fullmatch(X[n]) THEN FirstPass(stat, X, n + 1)
  ELSE FirstPass(CountPairs(stat, Split(X[n]), 2), X, n + 1)

RECURSIVE CountTotals(_, _, _)
\* for token in txt.split(), from position j on: a token that is a key gets
\* its total incremented.
CountTotals(stat, tokens, j) ==
  IF j > Len(tokens) THEN stat
  ELSE IF tokens[j] \in DOMAIN stat
  THEN CountTotals(DictSet(stat, tokens[j], TupleIncr(stat[tokens[j]], 1)), tokens, j + 1)
  ELSE CountTotals(stat, tokens, j + 1)

RECURSIVE SecondPass(_, _, _)
\* The second loop of fit over the whole of X, from string n on.
SecondPass(stat, X, n) ==
  IF n > Len(X) THEN stat
  ELSE SecondPass(CountTotals(stat, Split(X[n]), 1), X, n + 1)

\* A fit that keeps the table it finds.
FitResetKeeps(stat) == stat

\* self.stat = {} at the start of fit.
FitReset(stat) == EmptyStat

\* A second pass that counts nothing.
FitTotalsSkipped(stat, X) == stat

\* The second loop of fit.
FitTotals(stat, X) == SecondPass(stat, X, 1)

\* OmittedPrepositions.fit(X): the stat table it leaves in self.stat.
OmittedPrepositions_fit(stat, X) ==
  FitTotals(FirstPass(FitReset(stat), X, 1), X)

\* max(tuple)
TupleMax(tup) == CHOOSE m \in {tup[i] : i \in 1..Len(tup)} : \A i \in 1..Len(tup) : tup[i] <= m

\* The words a token list or an engine token may hold at inference time.
TokWords == {"go", "i"}

\* The part-of-speech tags the engine may give the last token.
PosTags == {"VERB", "NOUN"}

\* What transform reads of the doc self.nlp(X[-1]) returns: whether it is
\* empty, and the text and pos_ of its last token.
Docs == {<< >>} \cup {<<tok>> : tok \in [text : TokWords, pos_ : PosTags]}

\* cnt_total / cnt_with_prep if cnt_with_prep else self.threshold, as the
\* fraction <<numerator, denominator>>.
Factor(cnt_total, cnt_with_prep, threshold) ==
  IF cnt_with_prep # 0 THEN <<cnt_total, cnt_with_prep>> ELSE <<threshold, 1>>

\* factor <= self.threshold
FactorPasses(factor, threshold) == factor[1] <= threshold * factor[2]

\* A choice of the last position holding the maximum.
MaxIndexLast(cnts) ==
  LET rest == Tail(cnts)
      m == TupleMax(rest)
  IN (CHOOSE i \in 1..Len(rest) : rest[i] = m /\ \A j \in (i + 1)..Len(rest) : rest[j] # m) + 1

\* cnts[1:].index(max(cnts[1:])) + 1, as a position of cnts counted from 1.
MaxIndex(cnts) == TupleIndex(Tail(cnts), TupleMax(Tail(cnts))) + 1

\* OmittedPrepositions.transform(X), doc being what self.nlp(X[-1]) returns.
OmittedPrepositions_transform(self, X, doc) ==
  IF X = << >> THEN X
  ELSE IF doc = << >> THEN X
  ELSE LET last_tok == doc[Len(doc)] IN
       IF last_tok.pos_ # "VERB" THEN X
       ELSE IF last_tok.text \notin DOMAIN self.stat THEN X
       ELSE LET cnts == self.stat[last_tok.text]
                max_index == MaxIndex(cnts)
                cnt_with_prep == cnts[max_index]
                cnt_total == cnts[1]
                factor == Factor(cnt_total, cnt_with_prep, self.threshold)
            IN IF Len(cnts) > 0 /\ FactorPasses(factor, self.threshold)
               THEN Append(X, prepositions[max_index - 1])
               ELSE X

\* The storage locations: directories that exist. The artifact of a location
\* is the file os.path.join(storage_path, self.file_name), one per location.
Paths == {"models"}

Absent == [format |-> "absent"]

\* pickle.dump of {'stat': ..., 'threshold': ...}: the dictionary goes out as
\* its items.
PickleDump(tmp) ==
  [stat |-> {<<k, tmp.stat[k]>> : k \in DOMAIN tmp.stat}, threshold |-> tmp.threshold]

\* pickle.load: the dictionary is rebuilt from its items.
PickleLoad(payload) ==
  [stat |-> [k \in {it[1] : it \in payload.stat} |->
               (CHOOSE it \in payload.stat : it[1] = k)[2]],
   threshold |-> payload.threshold]

\* The file gzip.open(file, 'wb') and pickle.dump leave.
GzipFile(tmp) == [format |-> "gzip", payload |-> PickleDump(tmp)]

\* if storage_path: self.storage_path = storage_path
WithPath(self, storage_path) ==
  IF storage_path # None THEN [self EXCEPT !.storage_path = storage_path] ELSE self

\* OmittedPrepositions.save(storage_path): the file system it leaves.
OmittedPrepositions_save(self, storage_path, files) ==
  LET me == WithPath(self, storage_path) IN
  IF me.storage_path # None
  THEN [files EXCEPT ![me.storage_path] =
          GzipFile([stat |-> me.stat, threshold |-> me.threshold])]
  ELSE files

\* A load that also takes the threshold of the artifact.
LoadedTakesThreshold(self, tmp) ==
  [self EXCEPT !.stat = tmp.stat, !.threshold = tmp.threshold]

\* The body of "with gzip.open(file, 'rb') as f" in load: self.stat is
\* replaced, the threshold of the artifact is not read.
Loaded(self, tmp) == [self EXCEPT !.stat = tmp.stat]

\* OmittedPrepositions.load(storage_path): the instance it leaves and the
\* exception it raises; gzip.open of a file that does not exist raises the
\* built-in FileNotFoundError.
OmittedPrepositions_load(self, storage_path, files) ==
  LET me == WithPath(self, storage_path) IN
  IF me.storage_path = None THEN [self |-> me, raised |-> None]
  ELSE IF files[me.storage_path] = Absent
  THEN [self |-> me, raised |-> "FileNotFoundError"]
  ELSE [self |-> Loaded(me, PickleLoad(files[me.storage_path].payload)),
        raised |-> None]

\* OmittedPrepositions.__init__(storage_path=...): the fields it sets, then
\* self.load(self.storage_path).
OmittedPrepositions_init(storage_path, files) ==
  OmittedPrepositions_load(
    [stat |-> EmptyStat, threshold |-> DefaultThreshold, storage_path |-> storage_path],
    storage_path, files)

\* ------------------------------------------------------------ Pipeline

\* The stages a pipe is built of here: the base class and two stages that
\* map a string to a string.
StageTypes == {"PipelineStage", "LowerText", "GeneralizeDayOfWeek"}

\* The name each stage goes by in a pipe.
StageName(type) ==
  CASE type = "PipelineStage" -> "stage"
    [] type = "LowerText" -> "lower_text"
    [] type = "GeneralizeDayOfWeek" -> "generalize_dow"

\* One entry of self.pipe as SomePipeline.__init__ writes it: the Python tuple
\* (name, stage).
PipeEntry(type) ==
  [type |-> "tuple", items |-> <<StageName(type), [type |-> type]>>]

\* The pipes of at most n entries.
Pipes(n) == UNION {[1..k -> {PipeEntry(t) : t \in StageTypes}] : k \in 0..n}

\* str.lower() on the words of the model.
Lower(w) ==
  CASE w = "See" -> "see"
    [] w = "Friday" -> "friday"
    [] w = "DAY_OF_WEEK" -> "day_of_week"
    [] OTHER -> w

\* token.translate(str.maketrans('', '', string.punctuation)) on the words of
\* the model.
StripPunctuation(w) ==
  CASE w = "friday," -> "friday"
    [] w = "DAY_OF_WEEK" -> "DAYOFWEEK"
    [] w = "day_of_week" -> "dayofweek"
    [] OTHER -> w

\* GeneralizeDayOfWeek.synonyms
synonyms ==
  {"monday", "mon", "mo", "tuesday", "tue", "tu", "wednesday", "wed", "we",
   "thursday", "thu", "th", "friday", "fri", "fr", "saturday", "sat", "sa",
   "sunday", "sun", "su"}

\* ' '.join(tokens)
Join(tokens) ==
  [i \in 1..Len(tokens) |-> [sep |-> IF i = 1 THEN "" ELSE SP, word |-> tokens[i]]]

\* LowerText.transform
LowerText_transform(X) == [i \in 1..Len(X) |-> [sep |-> X[i].sep, word |-> Lower(X[i].word)]]

\* GeneralizeDayOfWeek.transform
GeneralizeDayOfWeek_transform(X) ==
  Join([i \in 1..Len(X) |->
          IF StripPunctuation(Split(X)[i]) \in synonyms THEN "DAY_OF_WEEK" ELSE Split(X)[i]])

\* stage.transform(X), by the class of the stage; PipelineStage.transform
\* returns X.
Stage_transform(stage, X) ==
  CASE stage.type = "LowerText" -> LowerText_transform(X)
    [] stage.type = "GeneralizeDayOfWeek" -> GeneralizeDayOfWeek_transform(X)
    [] OTHER -> X

\* hasattr(obj, 'fit'): a stage has the method, a tuple has not.
HasFit(obj) == obj.type \in StageTypes

\* The entries of the pipe taken from its end.
PipeItemReversed(self_pipe, i) == self_pipe[Len(self_pipe) - i]

\* self.pipe[i], i counted from 0.
PipeItem(self_pipe, i) == self_pipe[i + 1]

VARIABLES
  pipe,   \* self.pipe, fixed at construction
  pcall,  \* the call in progress or last made: op, X, Y
  pi,     \* the loop variable i
  pX,     \* the local X of transform
  plog,   \* the calls made in the loop: the object called, the method, X, Y
  pout    \* the outcome: state (idle, running, returned, raised), exc, self

pipeVars == <<pipe, pcall, pi, pX, plog, pout>>

\* The strings given to Pipeline.transform.
PipeTexts ==
  { << [sep |-> "", word |-> "See"], [sep |-> TAB, word |-> "Friday"] >>,
    << [sep |-> "", word |-> "see"], [sep |-> SP, word |-> "friday,"],
       [sep |-> TAB, word |-> "on"] >>,
    << [sep |-> "", word |-> "fri"] >> }

\* The training data given to Pipeline.fit.
PipeCorpora == {<< >>} \cup {<<t, u>> : t \in PipeTexts, u \in PipeTexts}

Labels == {None, "labels"}

PipeIdle ==
  /\ pcall = [op |-> "none", X |-> << >>, Y |-> None]
  /\ pi = 0
  /\ pX = << >>
  /\ plog = << >>
  /\ pout = [state |-> "idle", exc |-> None, self |-> FALSE]

\* pipeline.fit(X, Y) is called.
FitCall(X, Y) ==
  /\ pout.state # "running"
  /\ pcall' = [op |-> "fit", X |-> X, Y |-> Y]
  /\ pi' = 0
  /\ pX' = << >>
  /\ plog' = << >>
  /\ pout' = [state |-> "running", exc |-> None, self |-> FALSE]
  /\ UNCHANGED pipe

\* One turn of the loop of Pipeline.fit: self.pipe[i].fit(X, Y). Looking up
\* fit on an object without it raises AttributeError.
FitLoop ==
  /\ pout.state = "running"
  /\ pcall.op = "fit"
  /\ pi < Len(pipe)
  /\ IF HasFit(PipeItem(pipe, pi))
     THEN /\ plog' = Append(plog, [on |-> PipeItem(pipe, pi), method |-> "fit",
                                   X |-> pcall.X, Y |-> pcall.Y])
          /\ pi' = pi + 1
          /\ UNCHANGED pout
     ELSE /\ pout' = [state |-> "raised", exc |-> "AttributeError", self |-> FALSE]
          /\ UNCHANGED <<plog, pi>>
  /\ UNCHANGED <<pipe, pcall, pX>>

\* return self
FitReturn ==
  /\ pout.state = "running"
  /\ pcall.op = "fit"
  /\ pi = Len(pipe)
  /\ pout' = [state |-> "returned", exc |-> None, self |-> TRUE]
  /\ UNCHANGED <<pipe, pcall, pi, pX, plog>>

\* pipeline.transform(X) is called.
TransformCall(X) ==
  /\ pout.state # "running"
  /\ pcall' = [op |-> "transform", X |-> X, Y |-> None]
  /\ pi' = 0
  /\ pX' = X
  /\ plog' = << >>
  /\ pout' = [state |-> "running", exc |-> None, self |-> FALSE]
  /\ UNCHANGED pipe

\* One turn of the loop of Pipeline.transform: step = self.pipe[i];
\* X = step[1].transform(X).
TransformLoop ==
  /\ pout.state = "running"
  /\ pcall.op = "transform"
  /\ pi < Len(pipe)
  /\ LET step == PipeItem(pipe, pi) IN
       /\ plog' = Append(plog, [on |-> step.items[2], method |-> "transform",
                                X |-> pX, Y |-> None])
       /\ pX' = Stage_transform(step.items[2], pX)
  /\ pi' = pi + 1
  /\ UNCHANGED <<pipe, pcall, pout>>

\* return X
TransformReturn ==
  /\ pout.state = "running"
  /\ pcall.op = "transform"
  /\ pi = Len(pipe)
  /\ pout' = [state |-> "returned", exc |-> None, self |-> FALSE]
  /\ UNCHANGED <<pipe, pcall, pi, pX, plog>>

\* ------------------------------------------- the engine and its holders

\* The components of the engine that can be disabled.
Components == {"tagger", "parser", "ner", "lemmatizer"}

\* The engine objects: the one the caller imports, and the one a deepcopy
\* allocates.
EngineIds == {1, 2}

\* Who may hold a reference to an engine object.
Holders == {"caller", "pipeline", "generalize", "omitted_prepositions", "skip_past_tenses"}

StageHolders == {"generalize", "omitted_prepositions", "skip_past_tenses"}

VARIABLES
  heap,   \* the engine objects: whether allocated, and the components disabled
  href,   \* the engine object each holder references (0: none)
  nlp0,   \* the components disabled in the caller's engine before construction
  epath,  \* the storage_path given to SomePipeline
  epc     \* the statement of SomePipeline.__init__ to run next

engVars == <<heap, href, nlp0, epath, epc>>

EngIdle ==
  /\ heap = [e \in EngineIds |-> [alloc |-> FALSE, disabled |-> {}]]
  /\ href = [h \in Holders |-> 0]
  /\ nlp0 = {}
  /\ epath = None
  /\ epc = "idle"

\* nlp.disable_pipes(*names) on engine object e: the components stay disabled,
\* the context the call returns being dropped.
DisablePipes(h, e, names) == [h EXCEPT ![e].disabled = @ \cup names]

\* copy.deepcopy(nlp_model): a new engine object with the same components
\* disabled.
DeepCopy(h, e, new) == [h EXCEPT ![new] = [alloc |-> TRUE, disabled |-> h[e].disabled]]

\* self.nlp = nlp  (SomePipeline.__init__)
SelfNlp ==
  /\ epc = "self_nlp"
  /\ href' = [href EXCEPT !["pipeline"] = href["caller"]]
  /\ epc' = "disable_pipes"
  /\ UNCHANGED <<heap, nlp0, epath>>

\* self.nlp.disable_pipes('lemmatizer')
SelfNlpDisable ==
  /\ epc = "disable_pipes"
  /\ heap' = DisablePipes(heap, href["pipeline"], {"lemmatizer"})
  /\ epc' = "generalize"
  /\ UNCHANGED <<href, nlp0, epath>>

\* GeneralizeEnts(nlp_model=self.nlp, ...): self.nlp = nlp_model
GeneralizeEntsInit ==
  /\ epc = "generalize"
  /\ href' = [href EXCEPT !["generalize"] = href["pipeline"]]
  /\ epc' = "omitted_copy"
  /\ UNCHANGED <<heap, nlp0, epath>>

\* OmittedPrepositions(nlp_model=self.nlp, ...): self.nlp = copy.deepcopy(nlp_model)
OmittedCopy ==
  /\ epc = "omitted_copy"
  /\ LET new == CHOOSE e \in EngineIds : ~heap[e].alloc IN
       /\ heap' = DeepCopy(heap, href["pipeline"], new)
       /\ href' = [href EXCEPT !["omitted_prepositions"] = new]
  /\ epc' = "omitted_disable"
  /\ UNCHANGED <<nlp0, epath>>

\* self.nlp.disable_pipes('ner', 'lemmatizer')  (OmittedPrepositions.__init__)
OmittedDisable ==
  /\ epc = "omitted_disable"
  /\ heap' = DisablePipes(heap, href["omitted_prepositions"], {"ner", "lemmatizer"})
  /\ epc' = "omitted_load"
  /\ UNCHANGED <<href, nlp0, epath>>

\* SkipPastTenses(nlp_model=self.nlp): self.nlp = nlp_model
SkipPastTensesInit ==
  /\ epc = "skip_past_tenses"
  /\ href' = [href EXCEPT !["skip_past_tenses"] = href["pipeline"]]
  /\ epc' = "done"
  /\ UNCHANGED <<heap, nlp0, epath>>

\* ------------------------------------------------------- SkipPastTenses

\* The children of a root, as detect_past_tense reads them.
ChildTokens == [dep_ : {"aux", "nsubj"}, tag_ : {"VBD", "VBP", "NN"},
                pos_ : {"VERB", "AUX", "NOUN"}]

RootTokens == [dep_ : {"ROOT", "dep"}, tag_ : {"VBD", "VBP", "NN"}]

RECURSIVE ChildrenLoop(_, _, _)
\* for child in sent_token.root.children, from child j on: each VERB child
\* sets is_past_tense anew.
ChildrenLoop(children, j, is_past_tense) ==
  IF j > Len(children) THEN is_past_tense
  ELSE IF children[j].pos_ = "VERB"
  THEN ChildrenLoop(children, j + 1, ~(children[j].tag_ = "VBP"))
  ELSE ChildrenLoop(children, j + 1, is_past_tense)

\* SkipPastTenses.detect_past_tense, sents being list(self.nlp(sentence).sents):
\* each sentence its root and the children of the root, in order.
detect_past_tense(sents) ==
  IF sents = << >> THEN FALSE
  ELSE LET sent_token == sents[Len(sents)]
           root == sent_token.root
           children == sent_token.children
       IN IF root.dep_ = "ROOT"
             /\ (root.tag_ = "VBD"
                 \/ ((\E j \in 1..Len(children) :
                        children[j].dep_ = "aux" /\ children[j].tag_ = "VBD")
                     /\ Len(children) > 1))
          THEN ChildrenLoop(children, 1, TRUE)
          ELSE FALSE

\* SkipPastTenses.transform(X): '' when the past tense is detected.
SkipPastTenses_transform(X, sents) ==
  IF detect_past_tense(sents) THEN [type |-> "str", value |-> << >>] ELSE X

VARIABLES
  tsents,    \* what the engine returns for the sentence: its sentences
  tverdict,  \* what detect_past_tense returned: called, value
  tX,        \* the X given to SkipPastTenses.transform
  tret       \* what it returned

tenseVars == <<tsents, tverdict, tX, tret>>

NoValue == [type |-> "none", value |-> << >>]

TenseIdle ==
  /\ tsents = << >>
  /\ tverdict = [called |-> FALSE, value |-> FALSE]
  /\ tX = NoValue
  /\ tret = NoValue

\* stage.detect_past_tense(sentence)
DetectCall ==
  /\ tverdict' = [called |-> TRUE, value |-> detect_past_tense(tsents)]
  /\ UNCHANGED <<tsents, tX, tret>>

\* stage.transform(X)
SkipCall(X) ==
  /\ tX' = X
  /\ tret' = SkipPastTenses_transform(X, tsents)
  /\ UNCHANGED <<tsents, tverdict>>

\* ------------------------------------------- OmittedPrepositions: state

VARIABLES
  pool,    \* the training strings at hand; fit is called on runs of them
  inst,    \* the OmittedPrepositions instances: live, stat, threshold, storage_path
  fs,      \* the artifact stored at each storage location
  saved,   \* per location, the table the saving instance held when it last wrote it
  call,    \* the last call: its operation, its instance, the storage location it
           \* used, the exception it raised
  fitX,    \* the corpus of the last fit
  tokX,    \* the token list given to the last transform
  tokDoc,  \* what the engine returned for its last token
  tokRet   \* what the last transform returned

prepVars == <<pool, inst, fs, saved, call, fitX, tokX, tokDoc, tokRet>>

vars == <<prepVars, pipeVars, engVars, tenseVars>>

Ids == {1, 2}

NoInstance == [live |-> FALSE, stat |-> EmptyStat, threshold |-> DefaultThreshold,
               storage_path |-> None]

\* An instance as the program holds it.
Live(self) == [live |-> TRUE, stat |-> self.stat, threshold |-> self.threshold,
               storage_path |-> self.storage_path]

\* The fields of an instance, as the operations of the class take them.
Self(i) == [stat |-> inst[i].stat, threshold |-> inst[i].threshold,
            storage_path |-> inst[i].storage_path]

NoCall == [op |-> "none", self |-> 0, path |-> None, raised |-> None]

\* obj = OmittedPrepositions(storage_path=path): an exception of __init__
\* leaves no instance.
New(i, path) ==
  /\ ~inst[i].live
  /\ LET r == OmittedPrepositions_init(path, fs) IN
       /\ inst' = [inst EXCEPT ![i] = IF r.raised = None THEN Live(r.self) ELSE NoInstance]
       /\ call' = [op |-> "init", self |-> i, path |-> r.self.storage_path, raised |-> r.raised]
  /\ UNCHANGED <<pool, fs, saved, fitX, tokX, tokDoc, tokRet>>

\* obj.threshold = t: the threshold is tuned per training set.
Tune(i, t) ==
  /\ inst[i].live
  /\ inst[i].threshold # t
  /\ inst' = [inst EXCEPT ![i].threshold = t]
  /\ call' = [op |-> "tune", self |-> i, path |-> None, raised |-> None]
  /\ UNCHANGED <<pool, fs, saved, fitX, tokX, tokDoc, tokRet>>

\* obj.fit(X), X the strings lo..hi of the pool.
Fit(i, lo, hi) ==
  /\ inst[i].live
  /\ LET X == SubSeq(pool, lo, hi) IN
       /\ inst' = [inst EXCEPT ![i].stat = OmittedPrepositions_fit(inst[i].stat, X)]
       /\ fitX' = X
  /\ call' = [op |-> "fit", self |-> i, path |-> None, raised |-> None]
  /\ UNCHANGED <<pool, fs, saved, tokX, tokDoc, tokRet>>

\* obj.save(path)
Save(i, path) ==
  /\ inst[i].live
  /\ LET me == WithPath(Self(i), path) IN
       /\ inst' = [inst EXCEPT ![i] = Live(me)]
       /\ fs' = OmittedPrepositions_save(Self(i), path, fs)
       /\ saved' = IF me.storage_path # None
                   THEN [saved EXCEPT ![me.storage_path] = me.stat]
                   ELSE saved
  /\ call' = [op |-> "save", self |-> i, path |-> WithPath(Self(i), path).storage_path,
              raised |-> None]
  /\ UNCHANGED <<pool, fitX, tokX, tokDoc, tokRet>>

\* obj.load(path)
Load(i, path) ==
  /\ inst[i].live
  /\ LET r == OmittedPrepositions_load(Self(i), path, fs) IN
       /\ inst' = [inst EXCEPT ![i] = Live(r.self)]
       /\ call' = [op |-> "load", self |-> i, path |-> r.self.storage_path, raised |-> r.raised]
  /\ UNCHANGED <<pool, fs, saved, fitX, tokX, tokDoc, tokRet>>

\* obj.transform(X), the engine returning doc for X[-1].
Transform(i, X, doc) ==
  /\ inst[i].live
  /\ tokX' = X
  /\ tokDoc' = doc
  /\ tokRet' = OmittedPrepositions_transform(Self(i), X, doc)
  /\ call' = [op |-> "transform", self |-> i, path |-> None, raised |-> None]
  /\ UNCHANGED <<pool, inst, fs, saved, fitX>>

\* ------------------------------------------------ specification: fit

\* An artifact an earlier run left at the storage location.
PriorStat == [k \in {"was"} |-> <<5, 1, 0, 2>>]

PriorArtifact == GzipFile([stat |-> PriorStat, threshold |-> DefaultThreshold])

\* One instance built without a storage location, any training strings, and
\* an artifact of an earlier run in the storage location.
InitFit ==
  /\ PipeIdle /\ pipe = << >>
  /\ EngIdle
  /\ TenseIdle
  /\ pool \in Corpora(MaxTokens)
  /\ inst = [i \in Ids |-> IF i = 1 THEN Live(OmittedPrepositions_init(None, fs).self)
                           ELSE NoInstance]
  /\ fs = [p \in Paths |-> PriorArtifact]
  /\ saved = [p \in Paths |-> PriorStat]
  /\ call = NoCall
  /\ fitX = << >>
  /\ tokX = << >>
  /\ tokDoc = << >>
  /\ tokRet = << >>

\* The runs lo..hi of the pool: the empty run once.
Runs == {<<1, 0>>} \cup {<<lo, hi>> \in (1..Len(pool)) \X (1..Len(pool)) : lo <= hi}

FitRun ==
  /\ \E r \in Runs : Fit(1, r[1], r[2])
  /\ UNCHANGED <<pipeVars, engVars, tenseVars>>

LoadPrior ==
  /\ \E p \in Paths : Load(1, p)
  /\ UNCHANGED <<pipeVars, engVars, tenseVars>>

NextFit == FitRun \/ LoadPrior

SpecFit == InitFit /\ [][NextFit]_vars

\* ------------------------------------------ specification: persistence

Thresholds == (0..MaxThreshold) \cup {DefaultThreshold}

\* The string of the given words, single spaces between them.
Str(words) == [i \in 1..Len(words) |-> [sep |-> IF i = 1 THEN "" ELSE SP, word |-> words[i]]]

\* Training sets: the corpus of the restoration scenario, and one that gives
\* a table of several keys.
SamplePools ==
  { << Str(<<"i", "work", "on", "monday">>), Str(<<"i", "work", "on", "tuesday">>),
       Str(<<"i", "relax">>) >>,
    << Str(<<"go", "in", "at", "noon">>), Str(<<"we", "go", "on">>), Str(<<"go">>) >> }

\* No instance yet, one of the training sets, nothing stored.
InitStore ==
  /\ PipeIdle /\ pipe = << >>
  /\ EngIdle
  /\ TenseIdle
  /\ pool \in SamplePools
  /\ inst = [i \in Ids |-> NoInstance]
  /\ fs = [p \in Paths |-> Absent]
  /\ saved = [p \in Paths |-> EmptyStat]
  /\ call = NoCall
  /\ fitX = << >>
  /\ tokX = << >>
  /\ tokDoc = << >>
  /\ tokRet = << >>

Construct ==
  /\ \E i \in Ids, p \in Paths \cup {None} : New(i, p)
  /\ UNCHANGED <<pipeVars, engVars, tenseVars>>

TuneAny ==
  /\ \E i \in Ids, t \in Thresholds : Tune(i, t)
  /\ UNCHANGED <<pipeVars, engVars, tenseVars>>

FitPool ==
  /\ \E i \in Ids : Fit(i, 1, Len(pool))
  /\ UNCHANGED <<pipeVars, engVars, tenseVars>>

SaveAny ==
  /\ \E i \in Ids, p \in Paths \cup {None} : Save(i, p)
  /\ UNCHANGED <<pipeVars, engVars, tenseVars>>

LoadAny ==
  /\ \E i \in Ids, p \in Paths \cup {None} : Load(i, p)
  /\ UNCHANGED <<pipeVars, engVars, tenseVars>>

NextStore == Construct \/ TuneAny \/ FitPool \/ SaveAny \/ LoadAny

SpecStore == InitStore /\ [][NextStore]_vars

\* ---------------------------------------- specification: transform

\* The stat records an artifact may hold.
Records == [1..4 -> 0..MaxCount]

\* The stat tables of the instance: no record, or one for the word "go".
Tables == {EmptyStat} \cup {[k \in {"go"} |-> <<r[1], r[2], r[3], r[4]>>] : r \in Records}

\* The token lists given to transform.
TokenLists == UNION {[1..n -> TokWords] : n \in 0..MaxTokens}

\* One instance holding any table and any threshold.
InitTransform ==
  /\ PipeIdle /\ pipe = << >>
  /\ EngIdle
  /\ TenseIdle
  /\ pool = << >>
  /\ \E t \in Tables, th \in Thresholds :
       inst = [i \in Ids |-> IF i = 1
                 THEN Live([stat |-> t, threshold |-> th, storage_path |-> None])
                 ELSE NoInstance]
  /\ fs = [p \in Paths |-> Absent]
  /\ saved = [p \in Paths |-> EmptyStat]
  /\ call = NoCall
  /\ fitX = << >>
  /\ tokX = << >>
  /\ tokDoc = << >>
  /\ tokRet = << >>

TransformAny ==
  /\ \E X \in TokenLists, doc \in Docs : Transform(1, X, doc)
  /\ UNCHANGED <<pipeVars, engVars, tenseVars>>

NextTransform == TransformAny

SpecTransform == InitTransform /\ [][NextTransform]_vars

\* ------------------------------------------- specification: Pipeline

PrepIdle ==
  /\ pool = << >>
  /\ inst = [i \in Ids |-> NoInstance]
  /\ fs = [p \in Paths |-> Absent]
  /\ saved = [p \in Paths |-> EmptyStat]
  /\ call = NoCall
  /\ fitX = << >>
  /\ tokX = << >>
  /\ tokDoc = << >>
  /\ tokRet = << >>

\* A pipeline built with any pipe of (name, stage) entries; no call yet.
InitPipe ==
  /\ pipe \in Pipes(MaxPipe)
  /\ PipeIdle
  /\ PrepIdle
  /\ EngIdle
  /\ TenseIdle

PipeFitCall ==
  /\ \E X \in PipeCorpora, Y \in Labels : FitCall(X, Y)
  /\ UNCHANGED <<prepVars, engVars, tenseVars>>

PipeFitLoop == FitLoop /\ UNCHANGED <<prepVars, engVars, tenseVars>>

PipeFitReturn == FitReturn /\ UNCHANGED <<prepVars, engVars, tenseVars>>

PipeTransformCall ==
  /\ \E X \in PipeTexts : TransformCall(X)
  /\ UNCHANGED <<prepVars, engVars, tenseVars>>

PipeTransformLoop == TransformLoop /\ UNCHANGED <<prepVars, engVars, tenseVars>>

PipeTransformReturn == TransformReturn /\ UNCHANGED <<prepVars, engVars, tenseVars>>

NextPipe ==
  \/ PipeFitCall \/ PipeFitLoop \/ PipeFitReturn
  \/ PipeTransformCall \/ PipeTransformLoop \/ PipeTransformReturn

SpecPipe == InitPipe /\ [][NextPipe]_vars

\* ---------------------------------- specification: SomePipeline.__init__

\* The caller's engine with any components disabled, SomePipeline about to
\* be built with or without a storage location, whose artifact may be there.
InitEngines ==
  /\ nlp0 \in SUBSET Components
  /\ heap = [e \in EngineIds |-> IF e = 1 THEN [alloc |-> TRUE, disabled |-> nlp0]
                                 ELSE [alloc |-> FALSE, disabled |-> {}]]
  /\ href = [h \in Holders |-> IF h = "caller" THEN 1 ELSE 0]
  /\ epath \in Paths \cup {None}
  /\ epc = "self_nlp"
  /\ pool = << >>
  /\ inst = [i \in Ids |-> NoInstance]
  /\ fs \in {[p \in Paths |-> Absent], [p \in Paths |-> PriorArtifact]}
  /\ saved = [p \in Paths |-> EmptyStat]
  /\ call = NoCall
  /\ fitX = << >>
  /\ tokX = << >>
  /\ tokDoc = << >>
  /\ tokRet = << >>
  /\ PipeIdle /\ pipe = << >>
  /\ TenseIdle

\* self.load(self.storage_path) at the end of OmittedPrepositions.__init__: an
\* exception ends the construction of the pipeline.
OmittedLoad ==
  /\ epc = "omitted_load"
  /\ LET r == OmittedPrepositions_init(epath, fs) IN
       /\ inst' = [inst EXCEPT ![1] = IF r.raised = None THEN Live(r.self) ELSE NoInstance]
       /\ call' = [op |-> "init", self |-> 1, path |-> r.self.storage_path, raised |-> r.raised]
       /\ epc' = IF r.raised = None THEN "skip_past_tenses" ELSE "raised"
  /\ UNCHANGED <<pool, fs, saved, fitX, tokX, tokDoc, tokRet>>
  /\ UNCHANGED <<heap, href, nlp0, epath>>

EngSelfNlp == SelfNlp /\ UNCHANGED <<prepVars, pipeVars, tenseVars>>

EngSelfNlpDisable == SelfNlpDisable /\ UNCHANGED <<prepVars, pipeVars, tenseVars>>

EngGeneralizeEnts == GeneralizeEntsInit /\ UNCHANGED <<prepVars, pipeVars, tenseVars>>

EngOmittedCopy == OmittedCopy /\ UNCHANGED <<prepVars, pipeVars, tenseVars>>

EngOmittedDisable == OmittedDisable /\ UNCHANGED <<prepVars, pipeVars, tenseVars>>

EngOmittedLoad == OmittedLoad /\ UNCHANGED <<pipeVars, tenseVars>>

EngSkipPastTenses == SkipPastTensesInit /\ UNCHANGED <<prepVars, pipeVars, tenseVars>>

NextEngines ==
  \/ EngSelfNlp \/ EngSelfNlpDisable \/ EngGeneralizeEnts \/ EngOmittedCopy
  \/ EngOmittedDisable \/ EngOmittedLoad \/ EngSkipPastTenses

SpecEngines == InitEngines /\ [][NextEngines]_vars

\* ------------------------------------- specification: SkipPastTenses

\* The sequences of at most n children.
ChildLists(n) == UNION {[1..k -> ChildTokens] : k \in 0..n}

Sentences == [root : RootTokens, children : ChildLists(MaxChildren)]

\* A sentence in the simple past, standing before the last one.
EarlierSentence == [root |-> [dep_ |-> "ROOT", tag_ |-> "VBD"], children |-> << >>]

\* The engine returns no sentence, one sentence, or two.
InitTense ==
  /\ tsents \in {<< >>} \cup {<<st>> : st \in Sentences}
                \cup {<<EarlierSentence, st>> : st \in Sentences}
  /\ tverdict = [called |-> FALSE, value |-> FALSE]
  /\ tX = NoValue
  /\ tret = NoValue
  /\ PrepIdle
  /\ PipeIdle /\ pipe = << >>
  /\ EngIdle

\* The X given to SkipPastTenses.transform: a string or a token list.
TenseInputs ==
  {[type |-> "str", value |-> Str(<<"we", "went">>)],
   [type |-> "list", value |-> <<"we", "went">>]}

TenseDetect == DetectCall /\ UNCHANGED <<prepVars, pipeVars, engVars>>

TenseTransform ==
  /\ \E X \in TenseInputs : SkipCall(X)
  /\ UNCHANGED <<prepVars, pipeVars, engVars>>

NextTense == TenseDetect \/ TenseTransform

SpecTense == InitTense /\ [][NextTense]_vars

\* ------------------------------------------------------------- claims

\* The preposition the decision rule names for a record: the one of the
\* greatest counter, on before at before in.
ClaimedPreposition(rec) ==
  IF rec[2] >= rec[3] /\ rec[2] >= rec[4] THEN "on"
  ELSE IF rec[3] >= rec[4] THEN "at" ELSE "in"

\* c = max(with_on, with_at, with_in)
ClaimedBest(rec) ==
  IF rec[2] >= rec[3] /\ rec[2] >= rec[4] THEN rec[2]
  ELSE IF rec[3] >= rec[4] THEN rec[3] ELSE rec[4]

\* The last token, as the engine returns it, is tagged VERB, has a record,
\* and total / c <= threshold, the test passing outright when c = 0.
ClaimedRestores(stat, threshold, doc) ==
  /\ doc # << >>
  /\ doc[Len(doc)].pos_ = "VERB"
  /\ doc[Len(doc)].text \in DOMAIN stat
  /\ LET rec == stat[doc[Len(doc)].text]
         c == ClaimedBest(rec)
     IN c = 0 \/ rec[1] <= threshold * c

\* C3: transform returns the tokens extended by the preposition of the
\* greatest counter (on before at before in) exactly when the token list is
\* not empty, its last token is tagged VERB and has a record, and
\* total / c <= threshold (always so when c = 0); otherwise it returns the
\* tokens unchanged.
C3_TransformDecision ==
  call.op = "transform" =>
    tokRet = IF tokX # << >> /\ ClaimedRestores(inst[call.self].stat,
                                               inst[call.self].threshold, tokDoc)
             THEN Append(tokX, ClaimedPreposition(inst[call.self].stat[tokDoc[Len(tokDoc)].text]))
             ELSE tokX

\* A transform that restored "at" from a record whose at and in counters tie
\* at the maximum, above on.
C3_Witness ==
  /\ call.op = "transform"
  /\ tokX # << >>
  /\ tokRet = Append(tokX, "at")
  /\ inst[1].stat["go"][3] = inst[1].stat["go"][4]
  /\ inst[1].stat["go"][1] > inst[1].stat["go"][3]

\* The places <<n, j>> of the words of a corpus: word j of string n.
Places(X) == UNION {{<<n, j>> : j \in 1..Len(X[n])} : n \in 1..Len(X)}

\* The places where word k stands right before the word p.
PlacesBefore(X, k, p) ==
  {pl \in Places(X) : /\ X[pl[1]][pl[2]].word = k
                      /\ pl[2] < Len(X[pl[1]])
                      /\ X[pl[1]][pl[2] + 1].word = p}

\* The table the claim describes for a corpus.
ClaimedStat(X) ==
  LET keys == {X[pl[1]][pl[2]].word :
                 pl \in {q \in Places(X) : \E k \in 1..3 :
                           q \in PlacesBefore(X, X[q[1]][q[2]].word, prepositions[k])}}
  IN [k \in keys |->
        << Cardinality({pl \in Places(X) : X[pl[1]][pl[2]].word = k}),
           Cardinality(PlacesBefore(X, k, "on")),
           Cardinality(PlacesBefore(X, k, "at")),
           Cardinality(PlacesBefore(X, k, "in")) >>]

\* C4: after fit on strings whose words any whitespace may separate, the
\* keys of the table are the words standing right before on, at or in, the
\* three counters count those places and total counts the word anywhere in
\* the corpus.
C4_FitCounts ==
  call.op = "fit" => inst[call.self].stat = ClaimedStat(fitX)

\* C6: fit replaces the table: whatever it held, after fit(B) it is the
\* table an empty instance gets from fit(B).
C6_FitReplaces ==
  call.op = "fit" => inst[call.self].stat = OmittedPrepositions_fit(EmptyStat, fitX)

\* A fit that followed a load of the earlier artifact and left a table of
\* its own, without the key of the artifact.
C6_Witness ==
  /\ call.op = "fit"
  /\ inst[1].storage_path \in Paths
  /\ fitX # << >>
  /\ inst[1].stat # EmptyStat
  /\ "was" \notin DOMAIN inst[1].stat

\* C10: every record of a table that fit calls alone produced has
\* 1 <= max(with_on, with_at, with_in) <= total, so that transform never
\* takes the zero-count fallback on it.
C10_FittedRecords ==
  call.op # "load" =>
    \A k \in DOMAIN inst[1].stat :
      LET rec == inst[1].stat[k] IN
        /\ 1 <= TupleMax(Tail(rec))
        /\ TupleMax(Tail(rec)) <= rec[1]
        /\ rec[MaxIndex(rec)] # 0

\* A fitted record whose word also stands away from a preposition.
C10_Witness ==
  /\ call.op = "fit"
  /\ \E k \in DOMAIN inst[1].stat :
       /\ inst[1].stat[k][1] > TupleMax(Tail(inst[1].stat[k]))
       /\ TupleMax(Tail(inst[1].stat[k])) >= 1

\* C5: a load returns the table the saving instance held when it wrote the
\* location, and no load changes the threshold of the loading instance.
C5_RoundTrip ==
  /\ [](call.op = "load" /\ call.raised = None /\ call.path # None
          => inst[call.self].stat = saved[call.path])
  /\ [][\A i \in Ids : call'.op = "load" /\ call'.self = i /\ inst[i].live
          => inst'[i].threshold = inst[i].threshold]_vars

\* Instance 1 fitted a table and saved it under a tuned threshold; instance 2,
\* built with no storage location, loaded it and keeps the default threshold.
C5_Witness ==
  /\ call.op = "load"
  /\ call.self = 2
  /\ call.raised = None
  /\ call.path \in Paths
  /\ inst[1].stat # EmptyStat
  /\ inst[2].stat = inst[1].stat
  /\ Cardinality(DOMAIN inst[2].stat) > 1
  /\ fs[call.path].payload.threshold # DefaultThreshold
  /\ inst[2].threshold = DefaultThreshold

\* C7: a load (explicit, or at construction) with no storage location is
\* skipped silently; with a location whose artifact is missing it raises
\* MissingModelArtifact.
C7_MissingArtifact ==
  call.op \in {"load", "init"} =>
    /\ call.path = None => call.raised = None
    /\ (call.path # None /\ fs[call.path] = Absent) => call.raised = "MissingModelArtifact"
    /\ (call.path # None /\ fs[call.path] # Absent) => call.raised = None

\* The calls the loop of the pipeline makes when it calls the method once on
\* every stage, in pipe order, the i-th with the value given.
StageCalls(method, X(_), Y) ==
  [i \in 1..Len(pipe) |-> [on |-> pipe[i].items[2], method |-> method, X |-> X(i), Y |-> Y]]

\* C1: on a pipe of (name, stage) entries that is not empty, fit calls fit
\* once on every stage, in pipe order, each time with the X and Y it was
\* given, ends without an exception and returns the pipeline.
C1_FitBroadcast ==
  (pcall.op = "fit" /\ pipe # << >> /\ pout.state # "running") =>
    /\ pout.state = "returned"
    /\ pout.self
    /\ LET Same(i) == pcall.X IN plog = StageCalls("fit", Same, pcall.Y)

RECURSIVE Composed(_, _, _)
\* The first n stages of the pipe p applied to X, left to right.
Composed(p, X, n) ==
  IF n = 0 THEN X ELSE Stage_transform(p[n].items[2], Composed(p, X, n - 1))

\* C2: transform returns the stages' transforms composed left to right in
\* pipe order: every stage is called once, the first on X, each next one on
\* what the one before returned, and the last result is returned (X for an
\* empty pipe).
C2_TransformComposes ==
  /\ pcall.op = "transform" => pout.state # "raised"
  /\ (pcall.op = "transform" /\ pout.state = "returned") =>
       /\ pX = Composed(pipe, pcall.X, Len(pipe))
       /\ LET Threaded(i) == Composed(pipe, pcall.X, i - 1)
          IN plog = StageCalls("transform", Threaded, None)

\* A transform that returned from a pipe whose first two stages each changed
\* the value they were given.
C2_Witness ==
  /\ pcall.op = "transform"
  /\ pout.state = "returned"
  /\ Len(pipe) >= 2
  /\ plog[1].on # plog[2].on
  /\ plog[2].X # plog[1].X
  /\ pX # plog[2].X
  /\ pX # plog[1].X

\* C8: no engine object is referenced by two stages, nor by a stage and the
\* caller, and the components disabled in the caller's engine are those
\* disabled before the pipeline was built.
C8_IndependentEngines ==
  /\ \A a \in StageHolders, b \in Holders \ {"pipeline"} :
       (a # b /\ href[a] # 0) => href[a] # href[b]
  /\ heap[href["caller"]].disabled = nlp0

\* The root condition of the claim for a sentence.
ClaimedRootCondition(st) ==
  \/ st.root.tag_ = "VBD"
  \/ /\ \E j \in 1..Len(st.children) :
          st.children[j].dep_ = "aux" /\ st.children[j].tag_ = "VBD"
     /\ Len(st.children) > 1

\* C9: on the root of the last sentence, the verdict is past tense exactly
\* when the root condition holds and no child of the root is a verb tagged
\* VBP, whatever the order of the children.
C9_PresentChildOverrides ==
  (tverdict.called /\ tsents # << >> /\ tsents[Len(tsents)].root.dep_ = "ROOT") =>
    LET st == tsents[Len(tsents)] IN
      tverdict.value =
        (/\ ClaimedRootCondition(st)
         /\ ~\E j \in 1..Len(st.children) :
               st.children[j].pos_ = "VERB" /\ st.children[j].tag_ = "VBP")

====
